---------------------------- MODULE Spec2Model ----------------------------
(***************************************************************************)
(* A model of the chunking engine (src/content_chunker.py) and of the      *)
(* relevance ranker (src/semantic_search.py).                               *)
(*                                                                         *)
(* A Python str is a sequence of one-character strings, so that strip,     *)
(* split, join, lower and the tokenizer are computed character by          *)
(* character.  A Python dict is a function from its keys (a record); a key *)
(* the dict does not hold is absent from the DOMAIN.                        *)
(***************************************************************************)
EXTENDS Integers, Sequences, FiniteSets, TLC

(***************************************************************************)
(* Characters                                                              *)
(***************************************************************************)
SP == " "
NL == "\n"
Whitespace == {SP, NL}
LowerLetters == {"a", "b", "c", "h", "k", "n", "u"}
UpperLetters == {"A", "B", "C"}
Letters == LowerLetters \cup UpperLetters
Digits == {"0", "1", "2", "3", "4", "5", "6", "7", "8", "9"}
SentenceEnd == {".", "!", "?"}

SetMax(S) == CHOOSE x \in S : \A y \in S : y <= x
SetMin(S) == CHOOSE x \in S : \A y \in S : x <= y

\* The number of consecutive characters of s, from index i on, that are in C.
RECURSIVE RunLen(_, _, _)
RunLen(s, i, C) ==
    IF i > Len(s) \/ s[i] \notin C THEN 0 ELSE 1 + RunLen(s, i + 1, C)

RECURSIVE Concat(_)
Concat(ss) == IF ss = <<>> THEN <<>> ELSE Head(ss) \o Concat(Tail(ss))

\* sep.join(ss)
RECURSIVE Join(_, _)
Join(ss, sep) ==
    IF ss = <<>> THEN <<>>
    ELSE IF Len(ss) = 1 THEN ss[1]
    ELSE ss[1] \o sep \o Join(Tail(ss), sep)

\* s.strip()
RECURSIVE RStrip(_)
RStrip(s) ==
    IF s = <<>> \/ s[Len(s)] \notin Whitespace THEN s
    ELSE RStrip(SubSeq(s, 1, Len(s) - 1))

Strip(s) ==
    LET lead == RunLen(s, 1, Whitespace)
    IN  RStrip(SubSeq(s, lead + 1, Len(s)))

\* s.split(sep) for a non-empty separator: leftmost, non-overlapping.
RECURSIVE SplitOn(_, _)
SplitOn(s, sep) ==
    LET at == {i \in 1..(Len(s) - Len(sep) + 1) : SubSeq(s, i, i + Len(sep) - 1) = sep}
    IN  IF at = {} THEN <<s>>
        ELSE LET i == SetMin(at)
             IN  <<SubSeq(s, 1, i - 1)>> \o SplitOn(SubSeq(s, i + Len(sep), Len(s)), sep)

\* re.split(r'[C]+', s): split at every maximal run of characters of C.
RECURSIVE SplitRuns(_, _)
SplitRuns(s, C) ==
    LET at == {i \in 1..Len(s) : s[i] \in C}
    IN  IF at = {} THEN <<s>>
        ELSE LET i == SetMin(at)
                 n == RunLen(s, i, C)
             IN  <<SubSeq(s, 1, i - 1)>> \o SplitRuns(SubSeq(s, i + n, Len(s)), C)

\* s.split(): the maximal runs of non-whitespace characters.
SplitWords(s) == SelectSeq(SplitRuns(s, Whitespace), LAMBDA w : w /= <<>>)

\* str(n) for n >= 0
RECURSIVE Str(_)
Str(n) ==
    LET d == <<"0", "1", "2", "3", "4", "5", "6", "7", "8", "9">>
    IN  IF n < 10 THEN <<d[n + 1]>> ELSE Str(n \div 10) \o <<d[(n % 10) + 1]>>

(***************************************************************************)
(* The tokenizer: tiktoken's cl100k_base, as its split pattern cuts a text *)
(* over the characters of this model; every piece the pattern cuts is one  *)
(* token, and a token is identified with its text.  The alternatives of    *)
(* the pattern, tried in order at position i:                              *)
(*   [^\r\n\p{L}\p{N}]?\p{L}+        a letter run, with one leading        *)
(*                                   character that is no letter, digit    *)
(*                                   or newline                            *)
(*   \p{N}{1,3}                      up to three digits                    *)
(*    ?[^\s\p{L}\p{N}]+[\r\n]*       a punctuation run, with a leading     *)
(*                                   space and trailing newlines           *)
(*   \s*[\r\n]+                      whitespace up to its last newline     *)
(*   \s+(?!\S)                       whitespace not followed by text       *)
(*   \s+                             whitespace                            *)
(***************************************************************************)
Punctuation == {".", "!", "?", "#", "(", ")", "-"}
IsPunct(c) == c \in Punctuation

TokLen(s, i) ==
    LET c    == s[i]
        more == i < Len(s)
        ws   == RunLen(s, i, Whitespace)
        nls  == {k \in i..(i + ws - 1) : s[k] = NL}
    IN  IF c \in Letters THEN RunLen(s, i, Letters)
        ELSE IF c \in Punctuation \cup {SP} /\ more /\ s[i + 1] \in Letters
             THEN 1 + RunLen(s, i + 1, Letters)
        ELSE IF c \in Digits THEN SetMin({3, RunLen(s, i, Digits)})
        ELSE IF IsPunct(c)
             THEN LET p == RunLen(s, i, Punctuation)
                  IN  p + RunLen(s, i + p, {NL})
        ELSE IF c = SP /\ more /\ IsPunct(s[i + 1])
             THEN LET p == RunLen(s, i + 1, Punctuation)
                  IN  1 + p + RunLen(s, i + 1 + p, {NL})
        ELSE IF nls /= {} THEN SetMax(nls) - i + 1
        ELSE IF i + ws > Len(s) THEN ws
        ELSE IF ws >= 2 THEN ws - 1
        ELSE ws

\* encoding.encode(text), from index i on
RECURSIVE EncodeFrom(_, _)
EncodeFrom(s, i) ==
    IF i > Len(s) THEN <<>>
    ELSE LET n == TokLen(s, i)
         IN  <<SubSeq(s, i, i + n - 1)>> \o EncodeFrom(s, i + n)

encode(text) == EncodeFrom(text, 1)

\* encoding.decode(tokens)
decode(tokens) == Concat(tokens)

count_tokens(text) == Len(encode(text))

(***************************************************************************)
(* ContentChunker.  self is the chunker's configuration:                   *)
(* [target_chunk_size, overlap_tokens].  overlap_percentage is a whole     *)
(* number of percent.                                                      *)
(***************************************************************************)
\* ContentChunker.__init__
NewChunker(target_chunk_size, overlap_percent) ==
    [target_chunk_size |-> target_chunk_size,
     overlap_tokens    |-> (target_chunk_size * overlap_percent) \div 100]

\* tokens[-n:] : the last n tokens, and for n = 0 the slice [0:], all of them.
LastTokens(tokens, n) ==
    IF n = 0 THEN tokens
    ELSE SubSeq(tokens, SetMax({1, Len(tokens) - n + 1}), Len(tokens))

\* ContentChunker._get_overlap_text
_get_overlap_text(self, text) ==
    IF text = <<>> THEN <<>>
    ELSE LET tokens == encode(text)
         IN  IF Len(tokens) <= self.overlap_tokens THEN text
             ELSE LET overlap_text == decode(LastTokens(tokens, self.overlap_tokens))
                      sentences    == SplitOn(overlap_text, <<".">>)
                  IN  IF Len(sentences) > 1
                      THEN Join(Tail(sentences), <<".">>)
                      ELSE overlap_text

\* ContentChunker._split_into_sentences
_split_into_sentences(text) ==
    LET sentences == SplitRuns(text, SentenceEnd)
        stripped  == [i \in 1..Len(sentences) |-> Strip(sentences[i])]
    IN  SelectSeq(stripped, LAMBDA x : x /= <<>>)

(***************************************************************************)
(* _split_by_size returns the chunk texts.  Beside each text the model     *)
(* keeps, as a history annotation the code does not have, the part of it   *)
(* that was newly placed from the input (the text without its overlap      *)
(* prefix): an element of the result is [text, fresh].                     *)
(***************************************************************************)
Piece(text, fresh) == [text |-> Strip(text), fresh |-> fresh]

\* Mutant of SentenceStep: a sentence that fits is put in front of the buffer.
SentenceStepPrepending(self, st, sentence) ==
    LET sentence_tokens == count_tokens(sentence)
    IN  IF st.temp_tokens + sentence_tokens > self.target_chunk_size
        THEN [chunks      |-> IF st.temp_chunk /= <<>>
                              THEN Append(st.chunks, Piece(st.temp_chunk, st.temp_chunk))
                              ELSE st.chunks,
              temp_chunk  |-> sentence \o <<SP>>,
              temp_tokens |-> sentence_tokens]
        ELSE [chunks      |-> st.chunks,
              temp_chunk  |-> sentence \o <<SP>> \o st.temp_chunk,
              temp_tokens |-> st.temp_tokens + sentence_tokens]

\* Mutant of SentenceStep: a sentence that alone exceeds the target is left out.
SentenceStepDroppingOversize(self, st, sentence) ==
    LET sentence_tokens == count_tokens(sentence)
    IN  IF sentence_tokens > self.target_chunk_size THEN st
        ELSE IF st.temp_tokens + sentence_tokens > self.target_chunk_size
        THEN [chunks      |-> IF st.temp_chunk /= <<>>
                              THEN Append(st.chunks, Piece(st.temp_chunk, st.temp_chunk))
                              ELSE st.chunks,
              temp_chunk  |-> sentence \o <<SP>>,
              temp_tokens |-> sentence_tokens]
        ELSE [chunks      |-> st.chunks,
              temp_chunk  |-> st.temp_chunk \o sentence \o <<SP>>,
              temp_tokens |-> st.temp_tokens + sentence_tokens]

\* the body of `for sentence in sentences` (lines 175-185)
SentenceStep(self, st, sentence) ==
    LET sentence_tokens == count_tokens(sentence)
    IN  IF st.temp_tokens + sentence_tokens > self.target_chunk_size
        THEN [chunks      |-> IF st.temp_chunk /= <<>>
                              THEN Append(st.chunks, Piece(st.temp_chunk, st.temp_chunk))
                              ELSE st.chunks,
              temp_chunk  |-> sentence \o <<SP>>,
              temp_tokens |-> sentence_tokens]
        ELSE [chunks      |-> st.chunks,
              temp_chunk  |-> st.temp_chunk \o sentence \o <<SP>>,
              temp_tokens |-> st.temp_tokens + sentence_tokens]

\* `for sentence in sentences`
RECURSIVE SentenceLoop(_, _, _)
SentenceLoop(self, st, sentences) ==
    IF sentences = <<>> THEN st
    ELSE SentenceLoop(self, SentenceStep(self, st, Head(sentences)), Tail(sentences))

\* `if current_chunk:` save it before a large paragraph is split (lines 165-168)
SaveCurrent(st) ==
    IF st.current_chunk /= <<>>
    THEN [chunks         |-> Append(st.chunks, Piece(st.current_chunk, st.fresh)),
          current_chunk  |-> <<>>,
          fresh          |-> <<>>,
          current_tokens |-> 0]
    ELSE st

\* `if temp_chunk:` the sentence buffer t becomes the current chunk (lines 187-189)
KeepTemp(saved, t) ==
    IF t.temp_chunk /= <<>>
    THEN [chunks         |-> t.chunks,
          current_chunk  |-> t.temp_chunk,
          fresh          |-> t.temp_chunk,
          current_tokens |-> t.temp_tokens]
    ELSE [saved EXCEPT !.chunks = t.chunks]

\* the sentences of a large paragraph, packed after the chunks of `saved`
PackSentences(self, saved, paragraph) ==
    KeepTemp(saved,
             SentenceLoop(self,
                          [chunks |-> saved.chunks, temp_chunk |-> <<>>, temp_tokens |-> 0],
                          _split_into_sentences(paragraph)))

\* the branch for a paragraph larger than the target (lines 163-189)
SplitLargeParagraph(self, st, paragraph) ==
    PackSentences(self, SaveCurrent(st), paragraph)

\* the body of `for paragraph in paragraphs` (lines 159-206)
ParagraphStep(self, st, paragraph) ==
    LET paragraph_tokens == count_tokens(paragraph)
    IN  IF paragraph_tokens > self.target_chunk_size
        THEN SplitLargeParagraph(self, st, paragraph)
        ELSE IF st.current_tokens + paragraph_tokens > self.target_chunk_size
        THEN LET overlap_text == _get_overlap_text(self, st.current_chunk)
                 next_chunk   == overlap_text \o <<NL, NL>> \o paragraph
             IN  [chunks         |-> IF st.current_chunk /= <<>>
                                     THEN Append(st.chunks, Piece(st.current_chunk, st.fresh))
                                     ELSE st.chunks,
                  current_chunk  |-> next_chunk,
                  fresh          |-> paragraph,
                  current_tokens |-> count_tokens(next_chunk)]
        ELSE [chunks         |-> st.chunks,
              current_chunk  |-> IF st.current_chunk /= <<>>
                                 THEN st.current_chunk \o <<NL, NL>> \o paragraph
                                 ELSE paragraph,
              fresh          |-> IF st.current_chunk /= <<>>
                                 THEN st.fresh \o <<NL, NL>> \o paragraph
                                 ELSE paragraph,
              current_tokens |-> st.current_tokens + paragraph_tokens]

\* `for paragraph in paragraphs`
RECURSIVE ParagraphLoop(_, _, _)
ParagraphLoop(self, st, paragraphs) ==
    IF paragraphs = <<>> THEN st
    ELSE ParagraphLoop(self, ParagraphStep(self, st, Head(paragraphs)), Tail(paragraphs))

\* `[p.strip() for p in text.split('\n\n') if p.strip()]` (line 153)
StrippedNonEmpty(parts) ==
    SelectSeq([i \in 1..Len(parts) |-> Strip(parts[i])], LAMBDA p : p /= <<>>)

\* `if current_chunk: chunks.append(current_chunk.strip())` (lines 209-210)
FinalFlush(st) ==
    IF st.current_chunk /= <<>>
    THEN Append(st.chunks, Piece(st.current_chunk, st.fresh))
    ELSE st.chunks

\* ContentChunker._split_by_size
_split_by_size(self, text) ==
    IF Strip(text) = <<>> THEN <<>>
    ELSE FinalFlush(ParagraphLoop(self,
                                  [chunks |-> <<>>, current_chunk |-> <<>>, fresh |-> <<>>,
                                   current_tokens |-> 0],
                                  StrippedNonEmpty(SplitOn(text, <<NL, NL>>))))

(***************************************************************************)
(* Headings.  re.match(r'^(#{1,6})\s+(.+)$', line) on one physical line:   *)
(* one to six '#', then whitespace, then at least one more character.  The *)
(* whitespace run is greedy and gives back its last character when nothing *)
(* follows it.                                                             *)
(***************************************************************************)
HeadingMatch(line) ==
    LET hashes == RunLen(line, 1, {"#"})
        spaces == RunLen(line, hashes + 1, Whitespace)
        taken  == IF hashes + spaces = Len(line) THEN spaces - 1 ELSE spaces
        found  == hashes >= 1 /\ hashes <= 6 /\ taken >= 1
    IN  [matched |-> found,
         level   |-> hashes,
         text    |-> IF found THEN SubSeq(line, hashes + taken + 1, Len(line)) ELSE <<>>]

\* Mutant of LineStep: a heading line opens a section without being part of
\* the section's content.
LineStepDroppingHeadingLine(st, line) ==
    LET match == HeadingMatch(line)
    IN  IF match.matched
        THEN [sections |-> IF Strip(st.current_section.content) /= <<>>
                           THEN Append(st.sections, st.current_section)
                           ELSE st.sections,
              current_section |-> [title   |-> Strip(match.text),
                                   content |-> <<NL>>,
                                   level   |-> match.level]]
        ELSE [st EXCEPT !.current_section.content = @ \o line \o <<NL>>]

\* the body of `for line in lines` (lines 113-131)
LineStep(st, line) ==
    LET match == HeadingMatch(line)
    IN  IF match.matched
        THEN [sections |-> IF Strip(st.current_section.content) /= <<>>
                           THEN Append(st.sections, st.current_section)
                           ELSE st.sections,
              current_section |-> [title   |-> Strip(match.text),
                                   content |-> line \o <<NL>>,
                                   level   |-> match.level]]
        ELSE [st EXCEPT !.current_section.content = @ \o line \o <<NL>>]

\* `for line in lines`
RECURSIVE LineLoop(_, _)
LineLoop(st, lines) ==
    IF lines = <<>> THEN st ELSE LineLoop(LineStep(st, Head(lines)), Tail(lines))

MainContent == <<"M", "a", "i", "n", " ", "C", "o", "n", "t", "e", "n", "t">>

\* ContentChunker._split_by_headings
_split_by_headings(markdown) ==
    LET lines == SplitOn(markdown, <<NL>>)
        st == LineLoop([sections |-> <<>>,
                        current_section |-> [title |-> <<>>, content |-> <<>>, level |-> 0]],
                       lines)
        sections == IF Strip(st.current_section.content) /= <<>>
                    THEN Append(st.sections, st.current_section)
                    ELSE st.sections
    IN  IF sections = <<>>
        THEN <<[title |-> MainContent, content |-> markdown, level |-> 1]>>
        ELSE sections

(***************************************************************************)
(* The chunks.  An operation returns [chunks, prov]: chunks is the list of *)
(* dicts the code returns; prov is the model's history annotation, one     *)
(* entry per chunk: the index of the section that produced it (0 for       *)
(* chunk_by_size) and the text newly placed in it.                         *)
(***************************************************************************)
HeadingBased == "heading_based"
SizeBased    == "size_based"

SectionWord == <<"S", "e", "c", "t", "i", "o", "n", " ">>
PartOpen    == <<" ", "(", "P", "a", "r", "t", " ">>
PartClose   == <<")">>
ChunkWord   == <<"C", "h", "u", "n", "k", " ">>
Dash        == <<" ", "-", " ">>

\* Mutant of SubChunks: the id is the position within the section.
SubChunksNumberedPerSection(self, section_title, sub_chunks, chunk_id) ==
    [i \in 1..Len(sub_chunks) |->
        [id          |-> Str(i),
         title       |-> section_title \o PartOpen \o Str(i) \o PartClose,
         content     |-> Strip(sub_chunks[i].text),
         token_count |-> count_tokens(sub_chunks[i].text),
         type        |-> SizeBased]]

\* the chunks of a section larger than the target (lines 61-70)
SubChunks(self, section_title, sub_chunks, chunk_id) ==
    [i \in 1..Len(sub_chunks) |->
        [id          |-> Str(chunk_id + i - 1),
         title       |-> section_title \o PartOpen \o Str(i) \o PartClose,
         content     |-> Strip(sub_chunks[i].text),
         token_count |-> count_tokens(sub_chunks[i].text),
         type        |-> SizeBased]]

\* Mutant of FitsTarget: the comparison is strict.
FitsTargetStrict(self, section_content) ==
    count_tokens(section_content) < self.target_chunk_size

\* `if self.count_tokens(section_content) <= self.target_chunk_size` (line 50)
FitsTarget(self, section_content) ==
    count_tokens(section_content) <= self.target_chunk_size

\* Mutant of SplitSection: the parts of an oversize section are not appended.
SplitSectionDroppingChunks(self, st, section_title, sub_chunks) ==
    [chunks   |-> st.chunks,
     prov     |-> st.prov,
     chunk_id |-> st.chunk_id,
     sec      |-> st.sec + 1]

\* the branch for a section larger than the target (lines 59-70)
SplitSection(self, st, section_title, sub_chunks) ==
    [chunks   |-> st.chunks \o SubChunks(self, section_title, sub_chunks, st.chunk_id),
     prov     |-> st.prov \o [i \in 1..Len(sub_chunks) |->
                                 [sec |-> st.sec, fresh |-> sub_chunks[i].fresh]],
     chunk_id |-> st.chunk_id + Len(sub_chunks),
     sec      |-> st.sec + 1]

\* the body of `for section in sections` (lines 45-70)
SectionStep(self, st, section) ==
    LET section_title   == IF "title" \in DOMAIN section THEN section.title
                           ELSE SectionWord \o Str(st.chunk_id)
        section_content == IF "content" \in DOMAIN section THEN section.content ELSE <<>>
    IN  IF FitsTarget(self, section_content)
        THEN [chunks   |-> Append(st.chunks,
                                  [id          |-> Str(st.chunk_id),
                                   title       |-> section_title,
                                   content     |-> Strip(section_content),
                                   token_count |-> count_tokens(section_content),
                                   type        |-> HeadingBased]),
              prov     |-> Append(st.prov, [sec |-> st.sec, fresh |-> section_content]),
              chunk_id |-> st.chunk_id + 1,
              sec      |-> st.sec + 1]
        ELSE SplitSection(self, st, section_title, _split_by_size(self, section_content))

\* `for section in sections`
RECURSIVE SectionLoop(_, _, _)
SectionLoop(self, st, sections) ==
    IF sections = <<>> THEN st
    ELSE SectionLoop(self, SectionStep(self, st, Head(sections)), Tail(sections))

\* `for i, chunk_text in enumerate(text_chunks)` (lines 87-99)
SizeChunks(text_chunks, title) ==
    [chunks |-> [i \in 1..Len(text_chunks) |->
                    [id          |-> Str(i),
                     title       |-> IF title /= <<>>
                                     THEN title \o Dash \o ChunkWord \o Str(i)
                                     ELSE ChunkWord \o Str(i),
                     content     |-> Strip(text_chunks[i].text),
                     token_count |-> count_tokens(text_chunks[i].text),
                     type        |-> SizeBased]],
     prov   |-> [i \in 1..Len(text_chunks) |->
                    [sec |-> 0, fresh |-> text_chunks[i].fresh]]]

\* ContentChunker.chunk_by_size
chunk_by_size(self, markdown, title) ==
    SizeChunks(_split_by_size(self, markdown), title)

\* `if not chunks: return self.chunk_by_size(markdown, title)` (lines 73-76)
ChunksOrFallback(self, st, markdown, title) ==
    IF st.chunks = <<>>
    THEN chunk_by_size(self, markdown, title)
    ELSE [chunks |-> st.chunks, prov |-> st.prov]

\* ContentChunker.chunk_by_headings
chunk_by_headings(self, markdown, title) ==
    ChunksOrFallback(self,
                     SectionLoop(self,
                                 [chunks |-> <<>>, prov |-> <<>>, chunk_id |-> 1, sec |-> 1],
                                 _split_by_headings(markdown)),
                     markdown, title)

(***************************************************************************)
(* SemanticSearcher.  A vector is a sequence of integers; a score is an    *)
(* exact fraction [n, d] with d > 0, compared by cross-multiplication.     *)
(* The vectors of the model have whole-number norms, so that the cosine    *)
(* is such a fraction.                                                     *)
(***************************************************************************)
Score(n, d) == [n |-> n, d |-> d]
ScoreLess(x, y) == x.n * y.d < y.n * x.d
ScoreZero == Score(0, 1)

RECURSIVE Dot(_, _)
Dot(v1, v2) ==
    IF v1 = <<>> THEN 0 ELSE Head(v1) * Head(v2) + Dot(Tail(v1), Tail(v2))

\* np.linalg.norm, for a vector whose norm is a whole number
Norm(v) == CHOOSE r \in 0..Dot(v, v) : r * r = Dot(v, v)

\* _cosine_similarity
_cosine_similarity(v1, v2) ==
    LET norm_v1 == Norm(v1)
        norm_v2 == Norm(v2)
    IN  IF norm_v1 = 0 \/ norm_v2 = 0 THEN ScoreZero
        ELSE Score(Dot(v1, v2), norm_v1 * norm_v2)

\* dict.get(key, default)
Get(d, key, default) == IF key \in DOMAIN d THEN d[key] ELSE default

\* d[key] = value
Put(d, key, value) == [k \in DOMAIN d \cup {key} |-> IF k = key THEN value ELSE d[k]]

\* d.pop(key, None)
Pop(d, key) == [k \in DOMAIN d \ {key} |-> d[k]]

\* Mutant of SortOrder: the list is left in its input order.
SortOrderUnsorted(keys) == [i \in 1..Len(keys) |-> i]

\* Mutant of SortOrder: an index goes before the first one whose key is not
\* higher, so that equal keys come out in reverse input order.
RECURSIVE SortOrderTiesReversed(_)
SortOrderTiesReversed(keys) ==
    IF keys = <<>> THEN <<>>
    ELSE LET n      == Len(keys)
             sorted == SortOrderTiesReversed(SubSeq(keys, 1, n - 1))
             lower  == {i \in 1..Len(sorted) : ~ScoreLess(keys[n], keys[sorted[i]])}
             at     == IF lower = {} THEN Len(sorted) + 1 ELSE SetMin(lower)
         IN  SubSeq(sorted, 1, at - 1) \o <<n>> \o SubSeq(sorted, at, Len(sorted))

\* list.sort(key=..., reverse=True), as the order it puts the keys in: the
\* indices of `keys`, highest key first.  The sort is stable, so equal keys
\* keep their order: each index goes before the first one of a lower key.
RECURSIVE SortOrder(_)
SortOrder(keys) ==
    IF keys = <<>> THEN <<>>
    ELSE LET n      == Len(keys)
             sorted == SortOrder(SubSeq(keys, 1, n - 1))
             lower  == {i \in 1..Len(sorted) : ScoreLess(keys[sorted[i]], keys[n])}
             at     == IF lower = {} THEN Len(sorted) + 1 ELSE SetMin(lower)
         IN  SubSeq(sorted, 1, at - 1) \o <<n>> \o SubSeq(sorted, at, Len(sorted))

SortByScore(seq, keys) ==
    LET order == SortOrder(keys)
    IN  [i \in 1..Len(seq) |-> seq[order[i]]]

\* Mutant of FirstK: the head of the list fills every place.
FirstKRepeatingHead(seq, k) ==
    [i \in 1..(IF k < Len(seq) THEN k ELSE Len(seq)) |-> seq[1]]

\* seq[:k] for k >= 0
FirstK(seq, k) == SubSeq(seq, 1, IF k < Len(seq) THEN k ELSE Len(seq))

\* SemanticSearcher.embed_chunks, given what get_embeddings_batch returned
embed_chunks(chunk_list, embeddings) ==
    [i \in 1..Len(chunk_list) |->
        IF i <= Len(embeddings)
        THEN Put(chunk_list[i], "embedding", embeddings[i])
        ELSE Put(chunk_list[i], "embedding", <<>>)]

\* the chunks the similarity loop scores (lines 136-141)
Scorable(chunk_list) ==
    SelectSeq(chunk_list, LAMBDA c : Get(c, "embedding", <<>>) /= <<>>)

\* Mutant of RelevantChunk: the embedding is left on the returned item.
RelevantChunkKeepingEmbedding(pair) ==
    Put(pair.chunk, "similarity_score", pair.similarity)

\* the result items of find_relevant_chunks (lines 146-152)
RelevantChunk(pair) ==
    Pop(Put(pair.chunk, "similarity_score", pair.similarity), "embedding")

(***************************************************************************)
(* SemanticSearcher.find_relevant_chunks, given what get_embedding         *)
(* returned for the query ([] when the request failed).  np.dot raises on  *)
(* vectors of different lengths: the result is [raised, value].            *)
(***************************************************************************)
find_relevant_chunks(query_vector, chunk_list, k) ==
    IF query_vector = <<>> THEN [raised |-> FALSE, value |-> <<>>]
    ELSE LET scored == Scorable(chunk_list)
             similarities ==
                 [i \in 1..Len(scored) |->
                     [chunk      |-> scored[i],
                      similarity |-> _cosine_similarity(query_vector, scored[i].embedding)]]
             sorted == SortByScore(similarities,
                                   [i \in 1..Len(similarities) |-> similarities[i].similarity])
             top    == FirstK(sorted, k)
         IN  IF \E i \in 1..Len(scored) : Len(scored[i].embedding) /= Len(query_vector)
             THEN [raised |-> TRUE, value |-> <<>>]
             ELSE [raised |-> FALSE,
                   value  |-> [i \in 1..Len(top) |-> RelevantChunk(top[i])]]

\* c.lower()
Lower(c) == IF c = "A" THEN "a" ELSE IF c = "B" THEN "b" ELSE IF c = "C" THEN "c" ELSE c

\* set(text.lower().split())
WordSet(text) ==
    LET words == SplitWords([i \in 1..Len(text) |-> Lower(text[i])])
    IN  {words[i] : i \in 1..Len(words)}

KeywordFallbackTag == "keyword_fallback"

\* Mutant of KeywordScore: the overlap is divided by the chunk's word count.
KeywordScoreOverChunkWords(query_words, chunk) ==
    LET content       == Get(chunk, "title", <<>>) \o <<SP>> \o Get(chunk, "content", <<>>)
        content_words == WordSet(content)
        common_words  == query_words \cap content_words
    IN  IF query_words /= {}
        THEN Score(Cardinality(common_words), Cardinality(content_words))
        ELSE ScoreZero

\* the score of one chunk in _keyword_fallback (lines 200-205)
KeywordScore(query_words, chunk) ==
    LET content       == Get(chunk, "title", <<>>) \o <<SP>> \o Get(chunk, "content", <<>>)
        content_words == WordSet(content)
        common_words  == query_words \cap content_words
    IN  IF query_words /= {}
        THEN Score(Cardinality(common_words), Cardinality(query_words))
        ELSE ScoreZero

\* SemanticSearcher._keyword_fallback
_keyword_fallback(q, chunk_list, k) ==
    LET query_words == WordSet(q)
        hits == SelectSeq(chunk_list,
                          LAMBDA c : ScoreLess(ScoreZero, KeywordScore(query_words, c)))
        scored_chunks ==
            [i \in 1..Len(hits) |->
                Pop(Put(Put(hits[i], "similarity_score", KeywordScore(query_words, hits[i])),
                        "search_type", KeywordFallbackTag),
                    "embedding")]
    IN  FirstK(SortByScore(scored_chunks,
                           [i \in 1..Len(scored_chunks) |-> scored_chunks[i].similarity_score]),
               k)

\* _keyword_fallback_search of main_simple.py: the same ranking, but the
\* result items keep whatever embedding the chunk carries
_keyword_fallback_search(q, chunk_list, k) ==
    LET query_words == WordSet(q)
        hits == SelectSeq(chunk_list,
                          LAMBDA c : ScoreLess(ScoreZero, KeywordScore(query_words, c)))
        scored_chunks ==
            [i \in 1..Len(hits) |->
                Put(Put(hits[i], "similarity_score", KeywordScore(query_words, hits[i])),
                    "search_type", KeywordFallbackTag)]
    IN  FirstK(SortByScore(scored_chunks,
                           [i \in 1..Len(scored_chunks) |-> scored_chunks[i].similarity_score]),
               k)

\* Mutant of search_with_fallback: an empty embedding result also falls
\* through to the keyword path.
search_with_fallbackOnEmpty(q, query_vector, chunk_list, k) ==
    LET r == find_relevant_chunks(query_vector, chunk_list, k)
    IN  IF r.raised \/ r.value = <<>>
        THEN [raised |-> FALSE,
              value  |-> _keyword_fallback(q, chunk_list, k),
              path   |-> <<"embedding", "keyword">>]
        ELSE [raised |-> FALSE, value |-> r.value, path |-> <<"embedding">>]

\* Mutant of search_with_fallback: the exception of the embedding path is
\* not caught.
search_with_fallbackPropagating(q, query_vector, chunk_list, k) ==
    LET r == find_relevant_chunks(query_vector, chunk_list, k)
    IN  [raised |-> r.raised, value |-> r.value, path |-> <<"embedding">>]

\* Mutant of search_with_fallback: the keyword items are appended to the
\* items the embedding path produced.
search_with_fallbackMixing(q, query_vector, chunk_list, k) ==
    LET r == find_relevant_chunks(query_vector, chunk_list, k)
    IN  [raised |-> FALSE,
         value  |-> (IF r.raised THEN <<>> ELSE r.value) \o _keyword_fallback(q, chunk_list, k),
         path   |-> <<"embedding", "keyword">>]

\* SemanticSearcher.search_with_fallback: [raised, value, path], path the
\* scoring paths entered, in order.  `except Exception` catches whatever the
\* embedding path raises, and the keyword path raises nothing.
search_with_fallback(q, query_vector, chunk_list, k) ==
    LET r == find_relevant_chunks(query_vector, chunk_list, k)
    IN  IF r.raised
        THEN [raised |-> FALSE,
              value  |-> _keyword_fallback(q, chunk_list, k),
              path   |-> <<"embedding", "keyword">>]
        ELSE [raised |-> FALSE, value |-> r.value, path |-> <<"embedding">>]

(***************************************************************************)
(* Step 4 of process_content (main_simple.py, lines 150-167), given        *)
(* whether get_semantic_searcher could construct the searcher and what the *)
(* embedder answered: [raised, value, path, chunks], chunks the handler's  *)
(* chunk list as the step leaves it.  get_semantic_searcher raises an      *)
(* HTTPException, which `except Exception` catches like any other.         *)
(***************************************************************************)
process_content(constructed, embeddings, query_vector, q, chunk_list, k) ==
    IF ~constructed
    THEN [raised |-> FALSE,
          value  |-> _keyword_fallback_search(q, chunk_list, k),
          path   |-> <<"keyword">>,
          chunks |-> chunk_list]
    ELSE LET chunks_with_embeddings == embed_chunks(chunk_list, embeddings)
             r == search_with_fallback(q, query_vector, chunks_with_embeddings, k)
         IN  IF r.raised
             THEN [raised |-> FALSE,
                   value  |-> _keyword_fallback_search(q, chunks_with_embeddings, k),
                   path   |-> Append(r.path, "keyword"),
                   chunks |-> chunks_with_embeddings]
             ELSE [raised |-> FALSE,
                   value  |-> r.value,
                   path   |-> r.path,
                   chunks |-> chunks_with_embeddings]

(***************************************************************************)
(* The state                                                               *)
(***************************************************************************)
VARIABLES
    markdown,         \* the document handed to the chunker
    doc_title,        \* the title argument of the chunking call
    chunker,          \* the ContentChunker instance (its configuration)
    chunks,           \* the list the chunking call returned
    prov,             \* history: per returned chunk, its section and fresh text
    call,             \* the chunking operation that ran, "none" before it
    query,            \* the query of the ranking call
    top_k,            \* the top_k of the ranking call
    rchunks,          \* the caller's chunk list, which embed_chunks writes to
    batch,            \* history: the batch responses of the embedder, in order
    query_embedding,  \* history: the embedder's response for the query
    ranked,           \* the list the ranking call returned
    path,             \* history: the scoring paths the ranking call entered
    rcall,            \* the ranking operation that ran, "none" before it
    calls,            \* the calls in flight on the shared instances, by call id
    overlap_text      \* what _get_overlap_text returned for the text in markdown

chunker_vars == <<markdown, doc_title, chunker, chunks, prov, call, calls, overlap_text>>
ranker_vars  == <<query, top_k, rchunks, batch, query_embedding, ranked, path, rcall>>
vars == <<markdown, doc_title, chunker, chunks, prov, call,
          query, top_k, rchunks, batch, query_embedding, ranked, path, rcall, calls, overlap_text>>

(***************************************************************************)
(* The documents: every concatenation of at most MaxPieces fragments.      *)
(***************************************************************************)
MaxPieces == 3

Pieces ==
    { <<"a">>, <<SP, "b">>, <<".">>, <<"!">>, <<NL, NL>>, <<SP>>,
      <<"#", SP, "a", NL>>, <<NL, "#", SP, "b">>,
      <<"#", SP, "C", "h", "u", "n", "k", SP, "1">> }

RECURSIVE DocsUpTo(_)
DocsUpTo(n) ==
    IF n = 0 THEN {<<>>}
    ELSE LET shorter == DocsUpTo(n - 1)
         IN  shorter \cup {d \o p : d \in shorter, p \in Pieces}

Docs == DocsUpTo(MaxPieces)

Titles == {<<>>, <<"T">>}

\* (target_chunk_size, overlap percent): the defaults 750 and 15%, scaled to
\* documents of a few tokens.
Configs == {<<1, 100>>, <<2, 0>>, <<2, 50>>, <<5, 40>>}

RankerIdle ==
    /\ query = <<>>
    /\ top_k = 0
    /\ rchunks = <<>>
    /\ batch = <<>>
    /\ query_embedding = <<>>
    /\ ranked = <<>>
    /\ path = <<>>
    /\ rcall = "none"

InitChunker ==
    /\ markdown \in Docs
    /\ doc_title = <<>>
    /\ chunker \in {NewChunker(c[1], c[2]) : c \in Configs}
    /\ chunks = <<>>
    /\ prov = <<>>
    /\ call = "none"
    /\ calls = <<>>
    /\ overlap_text = <<>>
    /\ RankerIdle

ChunkByHeadings ==
    /\ call = "none"
    /\ \E title \in Titles :
          LET r == chunk_by_headings(chunker, markdown, title)
          IN  /\ doc_title' = title
              /\ chunks' = r.chunks
              /\ prov' = r.prov
    /\ call' = "chunk_by_headings"
    /\ UNCHANGED <<markdown, chunker, calls, overlap_text>>
    /\ UNCHANGED ranker_vars

ChunkBySize ==
    /\ call = "none"
    /\ \E title \in Titles :
          LET r == chunk_by_size(chunker, markdown, title)
          IN  /\ doc_title' = title
              /\ chunks' = r.chunks
              /\ prov' = r.prov
    /\ call' = "chunk_by_size"
    /\ UNCHANGED <<markdown, chunker, calls, overlap_text>>
    /\ UNCHANGED ranker_vars

NextChunker == ChunkByHeadings \/ ChunkBySize

SpecChunker == InitChunker /\ [][NextChunker]_vars

(***************************************************************************)
(* The ranker's inputs.  A chunk list holds up to MaxChunks chunks as the  *)
(* chunker returns them, numbered from "1"; the embedder answers either    *)
(* request with a failure (the empty list) or with vectors, of which it    *)
(* may return fewer than the texts it was sent.                            *)
(***************************************************************************)
MaxChunks == 2
MaxTopK   == 2

Texts ==
    { [title |-> <<"A">>, content |-> <<"a", SP, "b">>],
      [title |-> <<>>,    content |-> <<"b">>],
      [title |-> <<"c">>, content |-> <<"B", SP, "a">>] }

Queries == { <<"a">>, <<"A", SP, "b">>, <<"a", SP, "c">>, <<SP>> }

\* the vectors the embedder returns for chunk texts
Vectors == { <<1, 0>>, <<3, 4>>, <<0, 0>> }

MakeChunk(i, text) ==
    [id          |-> Str(i),
     title       |-> text.title,
     content     |-> text.content,
     token_count |-> count_tokens(text.content),
     type        |-> HeadingBased]

ChunkLists ==
    UNION {{[i \in 1..n |-> MakeChunk(i, t[i])] : t \in [1..n -> Texts]} : n \in 0..MaxChunks}

ChunkerIdle ==
    /\ markdown = <<>>
    /\ doc_title = <<>>
    /\ chunker = NewChunker(1, 0)
    /\ chunks = <<>>
    /\ prov = <<>>
    /\ call = "none"
    /\ calls = <<>>
    /\ overlap_text = <<>>

InitRanker ==
    /\ query \in Queries
    /\ top_k \in 0..MaxTopK
    /\ rchunks \in ChunkLists
    /\ batch = <<>>
    /\ query_embedding = <<>>
    /\ ranked = <<>>
    /\ path = <<>>
    /\ rcall = "none"
    /\ ChunkerIdle

\* Mutant of ChunksAfterRanking: the items are built on the input dicts
\* themselves, so what is written to an item is written to its chunk.
ChunksAfterRankingInPlace(chunk_list, items) ==
    [i \in 1..Len(chunk_list) |->
        IF \E p \in 1..Len(items) : items[p].id = chunk_list[i].id
        THEN items[CHOOSE p \in 1..Len(items) : items[p].id = chunk_list[i].id]
        ELSE chunk_list[i]]

\* the caller's chunk list once the ranking has built its items: each item
\* is a chunk.copy() (semantic_search.py lines 148 and 209), so the writes
\* of similarity_score and search_type and the pop of 'embedding' do not
\* reach the dicts of the list
ChunksAfterRanking(chunk_list, items) == chunk_list

\* what get_embeddings_batch may return for n texts
BatchResponses(n) == UNION {[1..k -> Vectors] : k \in 0..n}

\* what get_embedding may return: a failure, a vector like those of the
\* chunks, or a vector of another dimension
QueryResponses == {<<>>, <<5>>} \cup Vectors

\* chunks_with_embeddings = searcher.embed_chunks(chunks)
EmbedChunks ==
    /\ rcall = "none"
    /\ batch = <<>>
    /\ \E embeddings \in BatchResponses(Len(rchunks)) :
          /\ rchunks' = embed_chunks(rchunks, embeddings)
          /\ batch' = <<embeddings>>
    /\ UNCHANGED <<query, top_k, query_embedding, ranked, path, rcall>>
    /\ UNCHANGED chunker_vars

\* searcher.find_relevant_chunks(query, chunks, top_k); an exception leaves
\* the caller without a result
FindRelevantChunks ==
    /\ rcall = "none"
    /\ \E v \in QueryResponses :
          LET r == find_relevant_chunks(v, rchunks, top_k)
          IN  /\ query_embedding' = v
              /\ ranked' = r.value
              /\ rchunks' = ChunksAfterRanking(rchunks, r.value)
              /\ rcall' = IF r.raised THEN "find_relevant_chunks raised"
                          ELSE "find_relevant_chunks"
    /\ path' = <<"embedding">>
    /\ UNCHANGED <<query, top_k, batch>>
    /\ UNCHANGED chunker_vars

\* searcher._keyword_fallback(query, chunks, top_k)
KeywordFallback ==
    /\ rcall = "none"
    /\ ranked' = _keyword_fallback(query, rchunks, top_k)
    /\ rchunks' = ChunksAfterRanking(rchunks, ranked')
    /\ rcall' = "_keyword_fallback"
    /\ path' = <<"keyword">>
    /\ UNCHANGED <<query, top_k, batch, query_embedding>>
    /\ UNCHANGED chunker_vars

\* searcher.search_with_fallback(query, chunks, top_k)
SearchWithFallback ==
    /\ rcall = "none"
    /\ \E v \in QueryResponses :
          LET r == search_with_fallback(query, v, rchunks, top_k)
          IN  /\ query_embedding' = v
              /\ ranked' = r.value
              /\ path' = r.path
              /\ rchunks' = ChunksAfterRanking(rchunks, r.value)
              /\ rcall' = IF r.raised THEN "search_with_fallback raised"
                          ELSE "search_with_fallback"
    /\ UNCHANGED <<query, top_k, batch>>
    /\ UNCHANGED chunker_vars

\* _keyword_fallback_search(request.query, chunks, request.top_k)
KeywordFallbackSearch ==
    /\ rcall = "none"
    /\ ranked' = _keyword_fallback_search(query, rchunks, top_k)
    /\ rcall' = "_keyword_fallback_search"
    /\ path' = <<"keyword">>
    /\ UNCHANGED <<query, top_k, rchunks, batch, query_embedding>>
    /\ UNCHANGED chunker_vars

\* step 4 of process_content, on the non-empty chunk list step 3 leaves
ProcessContent ==
    /\ rcall = "none"
    /\ batch = <<>>
    /\ rchunks /= <<>>
    /\ \E constructed \in BOOLEAN :
       \E embeddings \in IF constructed THEN BatchResponses(Len(rchunks)) ELSE {<<>>} :
       \E v \in IF constructed THEN QueryResponses ELSE {<<>>} :
          LET r == process_content(constructed, embeddings, v, query, rchunks, top_k)
          IN  /\ batch' = IF constructed THEN <<embeddings>> ELSE <<>>
              /\ query_embedding' = v
              /\ rchunks' = r.chunks
              /\ ranked' = r.value
              /\ path' = r.path
              /\ rcall' = IF r.raised THEN "process_content raised" ELSE "process_content"
    /\ UNCHANGED <<query, top_k>>
    /\ UNCHANGED chunker_vars

NextRanker ==
    \/ EmbedChunks
    \/ FindRelevantChunks
    \/ KeywordFallback
    \/ SearchWithFallback
    \/ KeywordFallbackSearch
    \/ ProcessContent

SpecRanker == InitRanker /\ [][NextRanker]_vars

(***************************************************************************)
(* The overlap text of a closed chunk: _get_overlap_text applied to the    *)
(* texts a buffer of _split_by_size can hold when it is closed.            *)
(***************************************************************************)
InitOverlap ==
    /\ markdown \in Docs
    /\ doc_title = <<>>
    /\ chunker \in {NewChunker(c[1], c[2]) : c \in Configs}
    /\ chunks = <<>>
    /\ prov = <<>>
    /\ call = "none"
    /\ calls = <<>>
    /\ overlap_text = <<>>
    /\ RankerIdle

\* overlap_text = self._get_overlap_text(current_chunk) (line 198)
GetOverlapText ==
    /\ call = "none"
    /\ overlap_text' = _get_overlap_text(chunker, markdown)
    /\ call' = "_get_overlap_text"
    /\ UNCHANGED <<markdown, doc_title, chunker, chunks, prov, calls>>
    /\ UNCHANGED ranker_vars

NextOverlap == GetOverlapText

SpecOverlap == InitOverlap /\ [][NextOverlap]_vars

(***************************************************************************)
(* Interleaved calls.  Up to MaxCalls calls run on one ContentChunker and  *)
(* one SemanticSearcher at a time (the service is an async web app with    *)
(* one global searcher).  A call is a frame of locals; a step of a call is *)
(* one statement group of its method, and steps of different calls         *)
(* interleave freely.  The instance attributes (chunker) are only read.    *)
(***************************************************************************)
MaxCalls == 2

CallIds == 1..MaxCalls

ChunkCallInputs ==
    { [kind |-> "chunk_by_headings", markdown |-> d, title |-> <<"T">>] :
        d \in { <<"#", SP, "a", NL, NL, "#", SP, "b">>,
                <<"a", ".", SP, "b", ".">>,
                <<SP>> } }

RankCallInputs ==
    { [kind |-> "search_with_fallback", query |-> <<"a">>, top_k |-> 2,
       chunks |-> embed_chunks(<<MakeChunk(1, [title |-> <<"A">>, content |-> <<"a", SP, "b">>]),
                                 MakeChunk(2, [title |-> <<>>, content |-> <<"b">>])>>,
                               << <<3, 4>>, <<1, 0>> >>)],
      [kind |-> "search_with_fallback", query |-> <<"A", SP, "b">>, top_k |-> 1,
       chunks |-> embed_chunks(<<MakeChunk(1, [title |-> <<>>, content |-> <<"b">>]),
                                 MakeChunk(2, [title |-> <<"c">>, content |-> <<"B", SP, "a">>])>>,
                               << <<1, 0>>, <<3, 4>> >>)] }

\* what get_embedding returns to a call: a vector of another dimension than
\* the chunks', which makes the scoring raise, or a vector like theirs
CallQueryResponses == {<<5>>, <<3, 4>>}

\* the locals of chunk_by_headings on entry: chunks = [], chunk_id = 1
\* (lines 39 and 44); sections is bound by the first step
NewFrame == [chunks |-> <<>>, prov |-> <<>>, chunk_id |-> 1, sec |-> 1]

\* a call that has been issued and has not run yet
NewCall(input) ==
    [input |-> input, pc |-> "start", sections |-> <<>>, st |-> NewFrame,
     query_embedding |-> <<>>, result |-> <<>>, overlapped |-> FALSE]

\* Mutant of Frame: chunk_id is one counter of the instance, which every
\* call in flight advances.
FrameSharingChunkId(cs, c) ==
    [cs[c].st EXCEPT !.chunk_id = SetMax({cs[d].st.chunk_id : d \in DOMAIN cs})]

\* the locals a step of call c reads: `chunks` and `chunk_id` are local
\* names of the method (lines 39, 44), so they are those of c's own frame
Frame(cs, c) == cs[c].st

\* history: whether another call is between its first and its last step
OthersInFlight(c) ==
    \E d \in CallIds \ {c} : calls[d].pc \notin {"start", "done"}

Advance(c, next) ==
    calls' = [calls EXCEPT ![c] = [next EXCEPT !.overlapped = @ \/ OthersInFlight(c)]]

ReentrantIdle ==
    /\ overlap_text = <<>>
    /\ markdown = <<>>
    /\ doc_title = <<>>
    /\ chunks = <<>>
    /\ prov = <<>>
    /\ call = "none"
    /\ RankerIdle

InitReentrant ==
    /\ chunker \in {NewChunker(c[1], c[2]) : c \in Configs}
    /\ calls \in [CallIds -> {NewCall(i) : i \in ChunkCallInputs \cup RankCallInputs}]
    /\ ReentrantIdle

\* sections = self._split_by_headings(markdown) (line 42)
CallSplitByHeadings ==
    /\ \E c \in CallIds :
          /\ calls[c].input.kind = "chunk_by_headings"
          /\ calls[c].pc = "start"
          /\ Advance(c, [calls[c] EXCEPT !.pc = "sections",
                                         !.sections = _split_by_headings(calls[c].input.markdown)])
    /\ UNCHANGED <<markdown, doc_title, chunker, chunks, prov, call, overlap_text>>
    /\ UNCHANGED ranker_vars

\* one iteration of `for section in sections` (lines 45-70)
CallSectionStep ==
    /\ \E c \in CallIds :
          /\ calls[c].pc = "sections"
          /\ calls[c].sections /= <<>>
          /\ Advance(c, [calls[c] EXCEPT !.st = SectionStep(chunker, Frame(calls, c),
                                                            Head(calls[c].sections)),
                                         !.sections = Tail(@)])
    /\ UNCHANGED <<markdown, doc_title, chunker, chunks, prov, call, overlap_text>>
    /\ UNCHANGED ranker_vars

\* the fallback and `return chunks` (lines 72-78)
CallReturnChunks ==
    /\ \E c \in CallIds :
          /\ calls[c].pc = "sections"
          /\ calls[c].sections = <<>>
          /\ Advance(c, [calls[c] EXCEPT !.pc = "done",
                                         !.result = ChunksOrFallback(chunker, Frame(calls, c),
                                                                     calls[c].input.markdown,
                                                                     calls[c].input.title).chunks])
    /\ UNCHANGED <<markdown, doc_title, chunker, chunks, prov, call, overlap_text>>
    /\ UNCHANGED ranker_vars

\* query_embedding = self.get_embedding(query): the call waits for the
\* embedder (semantic_search.py line 128)
CallGetEmbedding ==
    /\ \E c \in CallIds :
          /\ calls[c].input.kind = "search_with_fallback"
          /\ calls[c].pc = "start"
          /\ \E v \in CallQueryResponses :
                Advance(c, [calls[c] EXCEPT !.pc = "scoring", !.query_embedding = v])
    /\ UNCHANGED <<markdown, doc_title, chunker, chunks, prov, call, overlap_text>>
    /\ UNCHANGED ranker_vars

\* the rest of search_with_fallback: scoring, sorting, the fallback and the
\* return (semantic_search.py lines 129-154 and 173-177)
CallRank ==
    /\ \E c \in CallIds :
          /\ calls[c].pc = "scoring"
          /\ Advance(c, [calls[c] EXCEPT !.pc = "done",
                                         !.result = search_with_fallback(calls[c].input.query,
                                                                         calls[c].query_embedding,
                                                                         calls[c].input.chunks,
                                                                         calls[c].input.top_k).value])
    /\ UNCHANGED <<markdown, doc_title, chunker, chunks, prov, call, overlap_text>>
    /\ UNCHANGED ranker_vars

NextReentrant ==
    \/ CallSplitByHeadings
    \/ CallSectionStep
    \/ CallReturnChunks
    \/ CallGetEmbedding
    \/ CallRank

SpecReentrant == InitReentrant /\ [][NextReentrant]_vars

(***************************************************************************)
(* Properties                                                              *)
(***************************************************************************)
Prefix(s, k) == SubSeq(s, 1, k)
Suffix(s, k) == SubSeq(s, Len(s) - k + 1, Len(s))

\* the characters of s that are not whitespace, in order
NonSpace(s) == SelectSeq(s, LAMBDA c : c \notin Whitespace)

\* the characters of s that are neither whitespace nor sentence terminators
Core(s) == SelectSeq(s, LAMBDA c : c \notin Whitespace \cup SentenceEnd)

\* the text newly placed in the returned chunks, in the order of the chunks
FreshText == Concat([i \in 1..Len(prov) |-> prov[i].fresh])

\* some physical line of the document is a heading line
HasHeading(doc) ==
    LET lines == SplitOn(doc, <<NL>>)
    IN  \E i \in 1..Len(lines) : HeadingMatch(lines[i]).matched

\* the number a decimal numeral denotes
RECURSIVE Decimal(_)
Decimal(s) ==
    IF s = <<>> THEN 0
    ELSE 10 * Decimal(SubSeq(s, 1, Len(s) - 1))
         + (CHOOSE d \in 0..9 : Str(d) = <<s[Len(s)]>>)

Ranked == rcall \in {"find_relevant_chunks", "_keyword_fallback", "search_with_fallback"}

\* the embedder returned vectors for some of the texts embed_chunks sent it,
\* and for fewer than all
PartialBatch ==
    batch /= <<>> /\ Len(batch[1]) >= 1 /\ Len(batch[1]) < Len(rchunks)

\* C1: when the embedder returned vectors for fewer chunks than were
\* submitted, the ranking call returns the keyword-fallback ranking of all
\* the chunks, not embedding scores for the chunks that received a vector.
\* Stated for the case the claim names: some chunks received a vector, and
\* the query did.
C1_PartialBatchRanksByKeyword ==
    (rcall = "search_with_fallback" /\ PartialBatch /\ query_embedding /= <<>>)
        => ranked = _keyword_fallback(query, rchunks, top_k)

\* C2: when the embedding path is unavailable (no vector for the query, or a
\* failed batch request, so that no chunk has a vector), search_with_fallback
\* returns the keyword-fallback ranking of the chunks.
C2_UnavailableEmbedderRanksByKeyword ==
    (/\ rcall = "search_with_fallback"
     /\ \/ query_embedding = <<>>
        \/ batch /= <<>> /\ batch[1] = <<>>)
        => ranked = _keyword_fallback(query, rchunks, top_k)

\* C3: chunk_by_headings drops no input text: the newly placed text of the
\* chunks, in order, holds every non-whitespace character of the document.
C3_NoTextDropped ==
    call = "chunk_by_headings" => NonSpace(FreshText) = NonSpace(markdown)

\* C4: two consecutive size-derived chunks of one section overlap (a
\* non-empty suffix of the first is a prefix of the second) whenever
\* overlap_tokens > 0 and the first has more than overlap_tokens tokens.
C4_ConsecutiveChunksOverlap ==
    call /= "none" =>
        \A i \in 1..(Len(chunks) - 1) :
            (/\ chunks[i].type = "size_based"
             /\ chunks[i + 1].type = "size_based"
             /\ prov[i].sec = prov[i + 1].sec
             /\ chunker.overlap_tokens > 0
             /\ chunks[i].token_count > chunker.overlap_tokens)
                => \E k \in 1..Len(chunks[i].content) :
                      /\ k <= Len(chunks[i + 1].content)
                      /\ Suffix(chunks[i].content, k) = Prefix(chunks[i + 1].content, k)

\* C5, as claimed: a document without heading lines whose token count is at
\* most the target yields exactly one chunk, tagged size-derived.
C5_SmallDocumentIsOneSizeDerivedChunk ==
    (/\ call = "chunk_by_headings"
     /\ ~HasHeading(markdown)
     /\ count_tokens(markdown) <= chunker.target_chunk_size)
        => Len(chunks) = 1 /\ chunks[1].type = "size_based"

SmallPlainDocument ==
    /\ call = "chunk_by_headings"
    /\ ~HasHeading(markdown)
    /\ count_tokens(markdown) <= chunker.target_chunk_size
    /\ count_tokens(markdown \o <<NL>>) <= chunker.target_chunk_size

\* C5, amended: a document without heading lines that fits the target, alone
\* and followed by the line break the section splitter appends, yields exactly
\* one chunk, tagged heading-derived.
C5_SmallDocumentIsOneHeadingDerivedChunk ==
    SmallPlainDocument => Len(chunks) = 1 /\ chunks[1].type = "heading_based"

C5_Witness ==
    /\ SmallPlainDocument
    /\ Strip(markdown) /= <<>>
    /\ Len(SplitOn(markdown, <<NL, NL>>)) > 1
    /\ Len(chunks) = 1

\* C6: every chunk returned by chunk_by_headings or chunk_by_size has a
\* content that is trimmed and not empty.
C6_ContentTrimmedNonEmpty ==
    call /= "none" =>
        \A i \in 1..Len(chunks) :
            chunks[i].content /= <<>> /\ Strip(chunks[i].content) = chunks[i].content

\* C7: an empty or whitespace-only document yields no chunks, from
\* chunk_by_headings and from chunk_by_size.
C7_BlankDocumentYieldsNoChunks ==
    (call /= "none" /\ Strip(markdown) = <<>>) => chunks = <<>>

\* C8: the ids of the returned chunks are the numerals "1", "2", ..., "n" in
\* emission order, numbered across the whole output.
C8_IdsSequential ==
    call /= "none" =>
        \A i \in 1..Len(chunks) :
            /\ chunks[i].id /= <<>>
            /\ chunks[i].id[1] /= "0"
            /\ \A j \in 1..Len(chunks[i].id) : chunks[i].id[j] \in Digits
            /\ Decimal(chunks[i].id) = i

\* a second section was split by size, and its chunk continues the numbering
C8_Witness ==
    /\ call = "chunk_by_headings"
    /\ \E i \in 2..Len(chunks) :
          /\ prov[i].sec = 2
          /\ prov[i - 1].sec = 1
          /\ chunks[i].type = "size_based"
          /\ chunks[i].id = <<"2">>

\* C9: chunk_by_headings returns the chunks in document order: the sections
\* of successive chunks never go back, and the newly placed text of the chunks,
\* read in the order of the chunks, is the text of the document in its order
\* (whitespace and the sentence terminators a split removes aside).
C9_DocumentOrder ==
    call = "chunk_by_headings" =>
        /\ \A i \in 1..(Len(prov) - 1) : prov[i].sec <= prov[i + 1].sec
        /\ Core(FreshText) = Core(markdown)

\* one section gave two chunks of different text, the second one carrying an
\* overlap prefix
C9_Witness ==
    /\ call = "chunk_by_headings"
    /\ \E i \in 1..(Len(chunks) - 1) :
          /\ prov[i].sec = prov[i + 1].sec
          /\ Core(prov[i].fresh) /= <<>>
          /\ Core(prov[i + 1].fresh) /= <<>>
          /\ Core(prov[i].fresh) /= Core(prov[i + 1].fresh)
          /\ Core(chunks[i + 1].content) /= Core(prov[i + 1].fresh)

\* C10: a ranking call returns at most top_k items, in non-increasing order
\* of similarity_score, on the embedding path and on the keyword path.
C10_AtMostTopKSortedByScore ==
    Ranked =>
        /\ Len(ranked) <= top_k
        /\ \A i \in 1..(Len(ranked) - 1) :
              ~ScoreLess(ranked[i].similarity_score, ranked[i + 1].similarity_score)

\* of two scored chunks the second, which scores higher, is the one returned
C10_Witness ==
    /\ rcall = "find_relevant_chunks"
    /\ top_k = 1
    /\ Len(Scorable(rchunks)) = 2
    /\ Len(ranked) = 1
    /\ ranked[1].id = <<"2">>
    /\ ScoreLess(_cosine_similarity(query_embedding, rchunks[1].embedding),
                 ranked[1].similarity_score)


\* the path that scored the returned list
ScoredBy == IF path = <<>> THEN "none" ELSE path[Len(path)]

\* the ranking call returned a list scored by the keyword path
KeywordRanked ==
    /\ rcall \in {"_keyword_fallback", "_keyword_fallback_search", "search_with_fallback"}
    /\ ScoredBy = "keyword"

\* the ranking call returned a list scored by the embedding path
EmbeddingRanked ==
    /\ rcall \in {"find_relevant_chunks", "search_with_fallback"}
    /\ ScoredBy = "embedding"
    /\ query_embedding /= <<>>

\* the input chunks the path that ran gives a score to, as indices of rchunks
Candidates ==
    IF KeywordRanked
    THEN {i \in 1..Len(rchunks) : ScoreLess(ScoreZero, KeywordScore(WordSet(query), rchunks[i]))}
    ELSE IF EmbeddingRanked
    THEN {i \in 1..Len(rchunks) : Get(rchunks[i], "embedding", <<>>) /= <<>>}
    ELSE {}

\* the score the path that ran gives to the input chunk i
InputScore(i) ==
    IF KeywordRanked THEN KeywordScore(WordSet(query), rchunks[i])
    ELSE _cosine_similarity(query_embedding, rchunks[i].embedding)

SameScore(x, y) == ~ScoreLess(x, y) /\ ~ScoreLess(y, x)

\* the positions of the input chunk i in the returned list
PositionsOf(i) == {p \in 1..Len(ranked) : ranked[p].id = rchunks[i].id}

\* C11: on the embedding path and on the keyword path, of two input chunks
\* with equal scores the later one is returned only after the earlier one:
\* both returned, they keep their input order, and when top_k leaves room for
\* one of them it is the earlier.
C11_TiesKeepInputOrder ==
    (KeywordRanked \/ EmbeddingRanked) =>
        \A i \in Candidates : \A j \in Candidates :
            (i < j /\ SameScore(InputScore(i), InputScore(j))) =>
                \A q \in PositionsOf(j) : \E p \in PositionsOf(i) : p < q

\* two chunks tie on the keyword path and top_k has room for one: the first
C11_Witness ==
    /\ KeywordRanked
    /\ top_k = 1
    /\ Len(rchunks) = 2
    /\ Candidates = {1, 2}
    /\ SameScore(InputScore(1), InputScore(2))
    /\ Len(ranked) = 1
    /\ ranked[1].id = <<"1">>

\* a method of SemanticSearcher returned a ranking
SearcherRanked == rcall \in {"find_relevant_chunks", "_keyword_fallback", "search_with_fallback"}

\* C12: no item returned by find_relevant_chunks, _keyword_fallback or
\* search_with_fallback has an embedding, whatever the input chunks carried.
C12_NoEmbeddingReturned ==
    SearcherRanked => \A i \in 1..Len(ranked) : "embedding" \notin DOMAIN ranked[i]

\* a chunk that carried a vector came back, scored by that vector
C12_Witness ==
    /\ EmbeddingRanked
    /\ ranked /= <<>>
    /\ \E i \in 1..Len(rchunks) :
          /\ "embedding" \in DOMAIN rchunks[i]
          /\ rchunks[i].embedding /= <<>>
          /\ ranked[1].id = rchunks[i].id

\* C13: every returned item carries a tag naming the path that scored it:
\* the keyword tag on the keyword path, and a tag of its own on the
\* embedding path.
C13_EveryItemTaggedWithItsPath ==
    (KeywordRanked \/ EmbeddingRanked) =>
        \A i \in 1..Len(ranked) :
            /\ "search_type" \in DOMAIN ranked[i]
            /\ KeywordRanked => ranked[i].search_type = KeywordFallbackTag
            /\ EmbeddingRanked => ranked[i].search_type /= KeywordFallbackTag

\* the lowercase words of a chunk: those of its title and those of its content
ChunkWords(chunk) == WordSet(chunk.title) \cup WordSet(chunk.content)

\* the number of query words the chunk has
Overlap(chunk) == Cardinality(WordSet(query) \cap ChunkWords(chunk))

\* C14: on the keyword path every returned item's score is
\* |query_words \cap chunk_words| / |query_words| and is positive, the items
\* returned are drawn from the chunks that share a word with the query, and a
\* query without words returns nothing.
C14_KeywordScoreIsOverlapFraction ==
    KeywordRanked =>
        /\ \A p \in 1..Len(ranked) :
              /\ ranked[p].similarity_score.d * Overlap(ranked[p])
                    = ranked[p].similarity_score.n * Cardinality(WordSet(query))
              /\ ranked[p].similarity_score.d > 0
              /\ ScoreLess(ScoreZero, ranked[p].similarity_score)
              /\ Overlap(ranked[p]) > 0
        /\ \A i \in 1..Len(rchunks) : Overlap(rchunks[i]) = 0 => PositionsOf(i) = {}
        /\ WordSet(query) = {} => ranked = <<>>

\* of two chunks the one that shares no word with the query is left out and
\* the other is returned with a score strictly between 0 and 1
C14_Witness ==
    /\ KeywordRanked
    /\ Len(rchunks) = 2
    /\ Overlap(rchunks[1]) = 0
    /\ Len(ranked) = 1
    /\ ranked[1].id = <<"2">>
    /\ ScoreLess(ranked[1].similarity_score, Score(1, 1))

\* the number of times the path p was entered in the ranking call
Entries(p) == Cardinality({i \in 1..Len(path) : path[i] = p})

\* the embedding path of the call failed: the similarity computation raised
EmbeddingFailed == find_relevant_chunks(query_embedding, rchunks, top_k).raised

\* C15: in one search_with_fallback call the embedding path is entered at
\* most once and the keyword path at most once; the keyword path is entered
\* only after the embedding path, and only when that failed; nothing is
\* entered after the keyword path.
C15_NoRetryBetweenPaths ==
    rcall = "search_with_fallback" =>
        /\ Entries("embedding") <= 1
        /\ Entries("keyword") <= 1
        /\ \A i \in 1..Len(path) :
              path[i] = "keyword" =>
                  /\ i = Len(path)
                  /\ \E j \in 1..(i - 1) : path[j] = "embedding"
                  /\ EmbeddingFailed

\* the embedding path failed and the keyword path produced the result
C15_Witness ==
    /\ rcall = "search_with_fallback"
    /\ path = <<"embedding", "keyword">>
    /\ EmbeddingFailed
    /\ ranked /= <<>>

\* C16: every returned chunk's token_count is the tokenizer's count over the
\* chunk's content.
C16_TokenCountIsCountOfContent ==
    call /= "none" =>
        \A i \in 1..Len(chunks) : chunks[i].token_count = count_tokens(chunks[i].content)

\* s begins with the text p
StartsWith(s, p) == Len(s) >= Len(p) /\ Prefix(s, Len(p)) = p

\* C17: no chunk of chunk_by_headings has an empty title, and the chunks of a
\* document without headings are titled "Main Content" or "Section N".
C17_UntitledSectionsGetATitle ==
    call = "chunk_by_headings" =>
        \A i \in 1..Len(chunks) :
            /\ chunks[i].title /= <<>>
            /\ ~HasHeading(markdown) =>
                  \/ StartsWith(chunks[i].title, MainContent)
                  \/ StartsWith(chunks[i].title, SectionWord)

\* the physical lines of the document
DocLines == SplitOn(markdown, <<NL>>)

\* the heading lines of the document, in document order
HeadingLines == SelectSeq(DocLines, LAMBDA line : HeadingMatch(line).matched)

\* every section of the document fits the chunker's target
EverySectionFits ==
    LET sections == _split_by_headings(markdown)
    IN  \A i \in 1..Len(sections) : FitsTarget(chunker, sections[i].content)

StartsWithHeading == HeadingMatch(DocLines[1]).matched

\* C18: for a document that starts with a heading and whose sections all fit
\* the target, chunk_by_headings returns one chunk per heading line, in
\* document order; each is heading-derived, is titled with the heading's
\* text, and its content begins with the heading line itself.
C18_OneChunkPerHeading ==
    (call = "chunk_by_headings" /\ StartsWithHeading /\ EverySectionFits) =>
        /\ Len(chunks) = Len(HeadingLines)
        /\ \A i \in 1..Len(chunks) :
              /\ chunks[i].type = HeadingBased
              /\ chunks[i].title = Strip(HeadingMatch(HeadingLines[i]).text)
              /\ StartsWith(chunks[i].content, RStrip(HeadingLines[i]))

\* two headings with different texts gave two chunks
C18_Witness ==
    /\ call = "chunk_by_headings"
    /\ StartsWithHeading
    /\ EverySectionFits
    /\ Len(HeadingLines) = 2
    /\ Len(chunks) = 2
    /\ chunks[1].title = <<"a">>
    /\ chunks[2].title = <<"b">>

\* the document is one paragraph: it has text and no blank line inside it
SingleParagraph ==
    /\ Strip(markdown) /= <<>>
    /\ Len(SplitOn(Strip(markdown), <<NL, NL>>)) = 1

NoSentenceEnd == \A i \in 1..Len(markdown) : markdown[i] \notin SentenceEnd

\* a single paragraph without sentence punctuation that exceeds the target
OversizeUnpunctuatedParagraph ==
    /\ SingleParagraph
    /\ NoSentenceEnd
    /\ count_tokens(markdown) > chunker.target_chunk_size

\* C19 as stated: a single paragraph without '.', '!' or '?' that exceeds
\* the target comes back as exactly one chunk holding the whole paragraph.
C19_UnpunctuatedParagraphIsOneChunk ==
    (call /= "none" /\ OversizeUnpunctuatedParagraph) =>
        /\ Len(chunks) = 1
        /\ chunks[1].content = Strip(markdown)

\* no line after the first is a heading line, so that the heading splitter
\* leaves the document in one section
NoLaterHeading == \A i \in 2..Len(DocLines) : ~HeadingMatch(DocLines[i]).matched

\* C19, amended: the same, for chunk_by_size on any such paragraph, and for
\* chunk_by_headings when no line after the first is a heading line.
C19_UnsplitParagraphIsOneChunk ==
    (/\ call /= "none"
     /\ OversizeUnpunctuatedParagraph
     /\ call = "chunk_by_headings" => NoLaterHeading) =>
        /\ Len(chunks) = 1
        /\ chunks[1].content = Strip(markdown)

\* a paragraph of three times the target came back whole from the sentence
\* packing of chunk_by_headings
C19_Witness ==
    /\ call = "chunk_by_headings"
    /\ OversizeUnpunctuatedParagraph
    /\ NoLaterHeading
    /\ count_tokens(Strip(markdown)) >= 3 * chunker.target_chunk_size
    /\ Len(chunks) = 1
    /\ chunks[1].type = SizeBased
    /\ chunks[1].content = Strip(markdown)

\* the text of the returned chunk i that precedes its newly placed text: the
\* overlap prefix its buffer was seeded with, and the separator after it
OverlapPrefix(i) ==
    LET content == chunks[i].content
        fresh   == Strip(prov[i].fresh)
    IN  IF Len(content) >= Len(fresh) /\ Suffix(content, Len(fresh)) = fresh
        THEN Prefix(content, Len(content) - Len(fresh))
        ELSE content

\* C20: the overlap prefix of every chunk is at most overlap_tokens tokens
\* long; with overlap_tokens = 0 a chunk holds nothing but its own text.
C20_OverlapPrefixAtMostOverlapTokens ==
    call /= "none" =>
        \A i \in 1..Len(chunks) :
            count_tokens(Strip(OverlapPrefix(i))) <= chunker.overlap_tokens

AloneResult(c) ==
    IF calls[c].input.kind = "chunk_by_headings"
    THEN chunk_by_headings(chunker, calls[c].input.markdown, calls[c].input.title).chunks
    ELSE search_with_fallback(calls[c].input.query, calls[c].query_embedding,
                              calls[c].input.chunks, calls[c].input.top_k).value

C23_NoEmbeddingLeftOnCallersChunks ==
    (rcall \in {"search_with_fallback", "process_content"} /\ batch /= <<>>) =>
        \A i \in 1..Len(rchunks) : "embedding" \notin DOMAIN rchunks[i]

\* the input chunk the returned item p was made from
SourceOf(p) == CHOOSE i \in 1..Len(rchunks) : rchunks[i].id = ranked[p].id

\* C27: all items returned by one call of search_with_fallback were scored by
\* the same method: either none has a search_type and each score is the
\* cosine of the query vector and its chunk's vector, or each has search_type
\* keyword_fallback and its score is the keyword score of its chunk.
C27_OneScoringMethodPerResult ==
    rcall = "search_with_fallback" =>
        \/ \A p \in 1..Len(ranked) :
              /\ "search_type" \notin DOMAIN ranked[p]
              /\ SameScore(ranked[p].similarity_score,
                           _cosine_similarity(query_embedding, rchunks[SourceOf(p)].embedding))
        \/ \A p \in 1..Len(ranked) :
              /\ "search_type" \in DOMAIN ranked[p]
              /\ ranked[p].search_type = KeywordFallbackTag
              /\ SameScore(ranked[p].similarity_score,
                           KeywordScore(WordSet(query), rchunks[SourceOf(p)]))

\* the embedding path raised on chunks that carry vectors, and the keyword
\* path returned two items
C27_Witness ==
    /\ rcall = "search_with_fallback"
    /\ path = <<"embedding", "keyword">>
    /\ Len(ranked) = 2
    /\ \A i \in 1..Len(rchunks) : Get(rchunks[i], "embedding", <<>>) /= <<>>

\* the returned item has the identity fields of the input chunk, unchanged
SameChunk(item, chunk) ==
    \A key \in {"id", "title", "content", "token_count", "type"} :
        /\ key \in DOMAIN item
        /\ key \in DOMAIN chunk
        /\ item[key] = chunk[key]

\* C29: the items returned by search_with_fallback correspond one to one to
\* distinct elements of the input chunk list, each with that chunk's id,
\* title, content, token_count and type unchanged: no input chunk is returned
\* twice and no item is returned that was not in the input.
C29_ItemsAreDistinctInputChunks ==
    rcall = "search_with_fallback" =>
        \E f \in [1..Len(ranked) -> 1..Len(rchunks)] :
            /\ \A p, q \in 1..Len(ranked) : p /= q => f[p] /= f[q]
            /\ \A p \in 1..Len(ranked) : SameChunk(ranked[p], rchunks[f[p]])

\* two chunks came back, the second input chunk first
C29_Witness ==
    /\ rcall = "search_with_fallback"
    /\ Len(ranked) = 2
    /\ ranked[1].id = rchunks[2].id
    /\ ranked[2].id = rchunks[1].id

TailTokens(tokens, n) ==
    SubSeq(tokens, SetMax({1, Len(tokens) - n + 1}), Len(tokens))

\* text with everything up to and including its first '.' removed, and text
\* itself when it has no '.'
AfterFirstDot(text) ==
    IF \E i \in 1..Len(text) : text[i] = "."
    THEN LET first == CHOOSE i \in 1..Len(text) :
                          text[i] = "." /\ \A j \in 1..(i - 1) : text[j] /= "."
         IN  SubSeq(text, first + 1, Len(text))
    ELSE text

\* C24: the overlap text of a closed chunk is the decoded last
\* overlap_tokens tokens of the chunk, cut after their first '.' when they
\* contain one and unchanged otherwise, also when the whole chunk has no more
\* than overlap_tokens tokens.
C24_OverlapIsTailAfterFirstDot ==
    call = "_get_overlap_text" =>
        overlap_text = AfterFirstDot(decode(TailTokens(encode(markdown), chunker.overlap_tokens)))

\* the text is one unit of the splitting: one paragraph holding at most one
\* sentence
SingleUnit(text) ==
    /\ Len(SplitOn(text, <<NL, NL>>)) = 1
    /\ Len(_split_into_sentences(text)) <= 1

\* C25: every chunk of the size-based splitting has at most
\* target_chunk_size tokens, unless it is a single sentence or unsplittable
\* unit that alone exceeds the target; chunks that begin with an overlap
\* prefix included.
C25_ChunksWithinTargetUnlessOneUnit ==
    call = "chunk_by_size" =>
        \A i \in 1..Len(chunks) :
            \/ count_tokens(chunks[i].content) <= chunker.target_chunk_size
            \/ SingleUnit(chunks[i].content)

\* t without the digits it ends with
RECURSIVE RStripDigits(_)
RStripDigits(t) ==
    IF t = <<>> \/ t[Len(t)] \notin Digits THEN t
    ELSE RStripDigits(SubSeq(t, 1, Len(t) - 1))

\* the chunks chunk_by_headings has when its loop over the sections ends
HeadingPass ==
    SectionLoop(chunker, NewFrame, _split_by_headings(markdown)).chunks

\* the title has the form the size-based chunking gives: "Chunk N", or
\* "<title> - Chunk N" for the title of the call
ChunkNumbered(t) ==
    LET digits == Len(t) - Len(RStripDigits(t))
        stem   == SubSeq(t, 1, Len(t) - digits)
    IN  /\ digits >= 1
        /\ \/ stem = ChunkWord
           \/ doc_title /= <<>> /\ stem = doc_title \o Dash \o ChunkWord

\* the text of some heading line of the document is t
IsHeadingText(t) ==
    \E i \in 1..Len(DocLines) :
        /\ HeadingMatch(DocLines[i]).matched
        /\ Strip(HeadingMatch(DocLines[i]).text) = t

\* C28 as stated: when the heading pass of chunk_by_headings produces no
\* chunk the fallback produces none either, no returned chunk is titled
\* "Chunk N" or "<title> - Chunk N", and a document with a heading line
\* yields at least one chunk.
C28_NoChunkTitledChunkN ==
    call = "chunk_by_headings" =>
        /\ HeadingPass = <<>> => chunk_by_size(chunker, markdown, doc_title).chunks = <<>>
        /\ \A i \in 1..Len(chunks) : ~ChunkNumbered(chunks[i].title)
        /\ HasHeading(markdown) => chunks /= <<>>

\* C28, amended: the fallback contributes no chunk, a returned chunk is
\* titled "Chunk N" or "<title> - Chunk N" only when that is the text of a
\* heading line of the document, and a document with a heading line yields at
\* least one chunk.
C28_FallbackContributesNothing ==
    call = "chunk_by_headings" =>
        /\ HeadingPass = <<>> =>
              /\ chunk_by_size(chunker, markdown, doc_title).chunks = <<>>
              /\ chunks = <<>>
        /\ \A i \in 1..Len(chunks) :
              ChunkNumbered(chunks[i].title) =>
                  /\ IsHeadingText(chunks[i].title)
                  /\ chunks[i].type = HeadingBased
        /\ HasHeading(markdown) => chunks /= <<>>

\* the heading pass left no chunk of a document that is not empty, so the
\* fallback ran, and it returned nothing
C28_Witness ==
    /\ call = "chunk_by_headings"
    /\ markdown /= <<>>
    /\ count_tokens(markdown) > chunker.target_chunk_size
    /\ HeadingPass = <<>>
    /\ chunks = <<>>

====
